---- MODULE Spec2Model ----
(***************************************************************************)
(* Model of ionyx/experiment/cross_validation.py: the two fold loops       *)
(* cross_validate and sequence_cross_validate.                             *)
(*                                                                         *)
(* Rows of the dataset are the indices 0 .. n_rows-1; a split is the set   *)
(* of row indices it selects.  The source is Python 2 (print statements,   *)
(* sklearn.cross_validation), so `/` on integers truncates.                *)
(* The collaborators that live outside the file (fit_transforms,           *)
(* apply_transforms, score, the model, KFold) are modelled as free         *)
(* constructors: their result records the arguments they were given.       *)
(***************************************************************************)
EXTENDS Integers, Sequences, FiniteSets

\* ---- bounds of the explored inputs ----
MaxLen == 10        \* longest series handed to sequence_cross_validate
MaxSamples == 4     \* largest dataset handed to cross_validate
MaxFolds == 5       \* largest n_folds argument
MaxMinWindow == 2   \* largest min_window argument
MaxForecast == 2    \* largest forecast_range argument

VARIABLES
    proc,                \* which procedure was called
    pc,                  \* "start" | "loop" | "done" | "raised"
    n_rows,              \* len(X) = y.shape[0]  (train_count at line 54)
    arg_n_folds,         \* n_folds as passed by the caller
    strategy, window_type, min_window, forecast_range,
    n_folds,             \* local n_folds (rebound at line 57)
    fold_size,           \* lines 58 / 60
    i,                   \* index of the next fold of the for loop
    fold_start, fold_end, fold_train_end,   \* locals of the last fold run
    X_train, X_eval,     \* rows selected by the last fold run
    transforms,          \* the local `transforms` (rebound at lines 27 / 75)
    folds,               \* list(KFold(...)), line 19
    y_pred, y_true,      \* accumulators of cross_validate, lines 16-17
    scores,              \* per-fold scores of sequence_cross_validate
    fit_calls,           \* training splits handed to model.fit, in order
    predict_calls,       \* splits handed to model.predict, in order
    fit_transforms_args, \* third argument of each fit_transforms call
    result               \* returned value

vars == <<proc, pc, n_rows, arg_n_folds, strategy, window_type, min_window,
          forecast_range, n_folds, fold_size, i, fold_start, fold_end,
          fold_train_end, X_train, X_eval, transforms, folds, y_pred, y_true,
          scores, fit_calls, predict_calls, fit_transforms_args, result>>

\* the transform specification supplied by the caller: nothing fitted yet
CallerTransforms == <<>>

NoResult == [returned |-> FALSE]

\* ---- helpers ----
MinOf(S) == CHOOSE m \in S : \A x \in S : m <= x

RECURSIVE SortedSeq(_)
\* the rows of S in ascending order (numpy mask / slice indexing order)
SortedSeq(S) == IF S = {} THEN <<>>
                ELSE LET m == MinOf(S) IN <<m>> \o SortedSeq(S \ {m})

\* one slice bound normalised against a length, as Python does
PyClamp(len, k) ==
    IF k < 0 THEN (IF k + len < 0 THEN 0 ELSE k + len)
    ELSE IF k > len THEN len ELSE k

\* rows selected by X[start:stop] on an array of len rows
PySlice(len, start, stop) ==
    {r \in 0 .. len - 1 : PyClamp(len, start) <= r /\ r < PyClamp(len, stop)}

\* ---- collaborators ----
\* fit_transforms(X_train, y_train, transforms): the fitted transforms are a
\* function of the training split and of the transforms object handed in
FitTransforms(train, t) == Append(t, train)

\* apply_transforms(X, transforms)
ApplyTransforms(rows, t) == [rows |-> rows, transforms |-> t]

\* model.fit(X_train, y_train): the estimator is refit from scratch on what
\* it is given
ModelFit(Xt) == [fitted_on |-> Xt]

\* model.predict(X): one prediction per row, in row order
ModelPredict(m, Xt) ==
    LET s == SortedSeq(Xt.rows)
    IN [j \in 1 .. Len(s) |-> [row |-> s[j], model |-> m, via |-> Xt.transforms]]

\* score(y_true, y_pred, metric) for a metric that does not depend on the
\* order of the (true, predicted) pairs
Score(yt, yp) ==
    [pairs |-> {<<yt[j], yp[j]>> : j \in (1 .. Len(yt)) \cap (1 .. Len(yp))},
     n_true |-> Len(yt), n_pred |-> Len(yp)]

\* the label vector y: the label of row r is r itself
Labels(rows) == SortedSeq(rows)

\* ---- KFold(n, n_folds, shuffle=True) ----
Perms(n) == {p \in [1 .. n -> 0 .. n - 1] : \A a, b \in 1 .. n : p[a] = p[b] => a = b}

KFoldSize(n, k, j) == (n \div k) + (IF j <= n % k THEN 1 ELSE 0)

RECURSIVE KFoldStop(_, _, _)
KFoldStop(n, k, j) == IF j = 0 THEN 0 ELSE KFoldStop(n, k, j - 1) + KFoldSize(n, k, j)

\* the list of (train_index, eval_index) pairs for the shuffled order idxs
KFold(idxs, k) ==
    LET n == Len(idxs)
    IN [j \in 1 .. k |->
          LET test == {idxs[p] : p \in KFoldStop(n, k, j - 1) + 1 .. KFoldStop(n, k, j)}
          IN [train_index |-> (0 .. n - 1) \ test, eval_index |-> test]]

KFoldRaises(n, k) == k <= 1 \/ k > n

\* ---- cross_validate, lines 10-45 ----

\* np.append(acc, vals), lines 34-35
CVAppendReset(acc, vals) == vals
CVAppend(acc, vals) == acc \o vals

\* the model.predict calls of one fold, lines 33-34
CVPredictsEvalOnly(log, train, eval) == log \o <<eval>>
CVPredicts(log, train, eval) == log \o <<train, eval>>

\* the training rows of a fold, line 22: X[train_index]
CVTrain(fold) == fold.train_index

\* one iteration of the loop body, lines 22-35, on the carried state
\* st = [transforms, y_pred, y_true]
CVFoldBody(st, fold) ==
    LET train == CVTrain(fold)
        eval  == fold.eval_index
        t     == FitTransforms(train, st.transforms)
        m     == ModelFit(ApplyTransforms(train, t))
    IN [transforms |-> t,
        y_pred |-> CVAppend(st.y_pred, ModelPredict(m, ApplyTransforms(eval, t))),
        y_true |-> CVAppend(st.y_true, Labels(eval))]

RECURSIVE CVRun(_, _)
\* the whole loop over a list of folds, lines 20-35
CVRun(st, fl) == IF fl = <<>> THEN st ELSE CVRun(CVFoldBody(st, Head(fl)), Tail(fl))

\* line 42 on the state the loop leaves
CVScore(st) == Score(st.y_true, st.y_pred)

CVEnter ==
    /\ proc = "cross_validate" /\ pc = "start"
    /\ ~KFoldRaises(n_rows, arg_n_folds)
    /\ \E idxs \in Perms(n_rows) : folds' = KFold(idxs, arg_n_folds)
    /\ pc' = "loop"
    /\ UNCHANGED <<proc, n_rows, arg_n_folds, strategy, window_type, min_window,
                   forecast_range, n_folds, fold_size, i, fold_start, fold_end,
                   fold_train_end, X_train, X_eval, transforms, y_pred, y_true,
                   scores, fit_calls, predict_calls, fit_transforms_args, result>>

\* KFold rejects n_folds <= 1 and n_folds > n with a ValueError, line 19
CVRaise ==
    /\ proc = "cross_validate" /\ pc = "start"
    /\ KFoldRaises(n_rows, arg_n_folds)
    /\ pc' = "raised"
    /\ UNCHANGED <<proc, n_rows, arg_n_folds, strategy, window_type, min_window,
                   forecast_range, n_folds, fold_size, i, fold_start, fold_end,
                   fold_train_end, X_train, X_eval, transforms, folds, y_pred,
                   y_true, scores, fit_calls, predict_calls, fit_transforms_args,
                   result>>

CVFold ==
    /\ proc = "cross_validate" /\ pc = "loop"
    /\ i < Len(folds)
    /\ LET fold == folds[i + 1]
           st   == CVFoldBody([transforms |-> transforms, y_pred |-> y_pred,
                               y_true |-> y_true], fold)
       IN /\ X_train' = CVTrain(fold)
          /\ X_eval' = fold.eval_index
          /\ fit_transforms_args' = Append(fit_transforms_args, transforms)
          /\ transforms' = st.transforms
          /\ fit_calls' = Append(fit_calls, CVTrain(fold))
          /\ predict_calls' = CVPredicts(predict_calls, CVTrain(fold), fold.eval_index)
          /\ y_pred' = st.y_pred
          /\ y_true' = st.y_true
    /\ i' = i + 1
    /\ UNCHANGED <<proc, pc, n_rows, arg_n_folds, strategy, window_type,
                   min_window, forecast_range, n_folds, fold_size, fold_start,
                   fold_end, fold_train_end, folds, scores, result>>

CVReturn ==
    /\ proc = "cross_validate" /\ pc = "loop"
    /\ i = Len(folds)
    /\ result' = [returned |-> TRUE,
                  value |-> CVScore([transforms |-> transforms, y_pred |-> y_pred,
                                     y_true |-> y_true])]
    /\ pc' = "done"
    /\ UNCHANGED <<proc, n_rows, arg_n_folds, strategy, window_type, min_window,
                   forecast_range, n_folds, fold_size, i, fold_start, fold_end,
                   fold_train_end, X_train, X_eval, transforms, folds, y_pred,
                   y_true, scores, fit_calls, predict_calls, fit_transforms_args>>

\* ---- sequence_cross_validate, lines 48-92 ----

\* lines 56-60
FoldSize(strat, n, k) == IF strat = "walk-forward" THEN 1 ELSE n \div k

\* line 57 / the caller's value otherwise
FoldCount(strat, n, k, mw, fr) == IF strat = "walk-forward" THEN n - mw - fr ELSE k

\* lines 64-67
FoldStartSize(wt, idx, fs) == IF wt = "fixed" THEN fs ELSE 0
FoldStart(wt, idx, fs) == IF wt = "fixed" THEN idx * fs ELSE 0

\* line 69
FoldEndShort(idx, fs, mw) == (idx + 1) * fs + mw - 1
FoldEnd(idx, fs, mw) == (idx + 1) * fs + mw

\* line 70
FoldTrainEnd(fe, fr) == fe - fr

SeqEnter ==
    /\ proc = "sequence_cross_validate" /\ pc = "start"
    /\ n_folds' = FoldCount(strategy, n_rows, arg_n_folds, min_window, forecast_range)
    /\ fold_size' = FoldSize(strategy, n_rows, arg_n_folds)
    /\ pc' = "loop"
    /\ UNCHANGED <<proc, n_rows, arg_n_folds, strategy, window_type, min_window,
                   forecast_range, i, fold_start, fold_end, fold_train_end,
                   X_train, X_eval, transforms, folds, y_pred, y_true, scores,
                   fit_calls, predict_calls, fit_transforms_args, result>>

SeqFold ==
    /\ proc = "sequence_cross_validate" /\ pc = "loop"
    /\ i < n_folds
    /\ LET fs  == FoldStart(window_type, i, fold_size)
           fe  == FoldEnd(i, fold_size, min_window)
           fte == FoldTrainEnd(fe, forecast_range)
           tr  == PySlice(n_rows, fs, fte)
           ev  == PySlice(n_rows, fte, fe)
           t   == FitTransforms(tr, transforms)
           m   == ModelFit(ApplyTransforms(tr, t))
           yp  == ModelPredict(m, ApplyTransforms(ev, t))
       IN /\ fold_start' = fs
          /\ fold_end' = fe
          /\ fold_train_end' = fte
          /\ X_train' = tr
          /\ X_eval' = ev
          /\ fit_transforms_args' = Append(fit_transforms_args, transforms)
          /\ transforms' = t
          /\ fit_calls' = Append(fit_calls, tr)
          /\ predict_calls' = Append(predict_calls, ev)
          /\ y_pred' = yp
          /\ scores' = Append(scores, Score(Labels(0 .. n_rows - 1), yp))
    /\ i' = i + 1
    /\ UNCHANGED <<proc, pc, n_rows, arg_n_folds, strategy, window_type,
                   min_window, forecast_range, n_folds, fold_size, folds,
                   y_true, result>>

SeqReturn ==
    /\ proc = "sequence_cross_validate" /\ pc = "loop"
    /\ i >= n_folds
    /\ result' = [returned |-> TRUE, value |-> [mean_of |-> scores]]
    /\ pc' = "done"
    /\ UNCHANGED <<proc, n_rows, arg_n_folds, strategy, window_type, min_window,
                   forecast_range, n_folds, fold_size, i, fold_start, fold_end,
                   fold_train_end, X_train, X_eval, transforms, folds, y_pred,
                   y_true, scores, fit_calls, predict_calls, fit_transforms_args>>

\* ---- the calls explored ----
Init ==
    /\ pc = "start"
    /\ arg_n_folds \in 1 .. MaxFolds
    /\ \/ /\ proc = "cross_validate"
          /\ n_rows \in 0 .. MaxSamples
          /\ strategy = "traditional" /\ window_type = "cumulative"
          /\ min_window = 0 /\ forecast_range = 1
       \/ /\ proc = "sequence_cross_validate"
          /\ n_rows \in 0 .. MaxLen
          /\ strategy \in {"traditional", "walk-forward"}
          /\ window_type \in {"cumulative", "fixed"}
          /\ min_window \in 0 .. MaxMinWindow
          /\ forecast_range \in 1 .. MaxForecast
    /\ n_folds = arg_n_folds /\ fold_size = 0 /\ i = 0
    /\ fold_start = 0 /\ fold_end = 0 /\ fold_train_end = 0
    /\ X_train = {} /\ X_eval = {}
    /\ transforms = CallerTransforms
    /\ folds = <<>>
    /\ y_pred = <<>> /\ y_true = <<>> /\ scores = <<>>
    /\ fit_calls = <<>> /\ predict_calls = <<>> /\ fit_transforms_args = <<>>
    /\ result = NoResult

Next ==
    \/ CVEnter
    \/ CVRaise
    \/ CVFold
    \/ CVReturn
    \/ SeqEnter
    \/ SeqFold
    \/ SeqReturn

Spec == Init /\ [][Next]_vars

\* number of folds the loop has run so far
FoldsRun == Len(fit_calls)

InSeq == proc = "sequence_cross_validate"
InCV == proc = "cross_validate"

\* the rows a <= r < b
Range(a, b) == a .. (b - 1)

\* the state cross_validate starts its loop from, lines 15-17
CVStart == [transforms |-> CallerTransforms, y_pred |-> <<>>, y_true |-> <<>>]

\* the folds list taken in the order q (a permutation of its positions)
Reordered(fl, q) == [j \in 1 .. Len(fl) |-> fl[q[j] + 1]]

\* ---- C1 ----
\* C1: under strategy 'walk-forward', on a series at least min_window +
\* forecast_range long, the loop runs exactly n_rows - min_window -
\* forecast_range folds whatever n_folds the caller passed, and the
\* evaluation split of every fold run holds exactly forecast_range rows.
C1_WalkForwardFolds ==
    (InSeq /\ strategy = "walk-forward" /\ n_rows >= min_window + forecast_range)
        => /\ pc = "done" => FoldsRun = n_rows - min_window - forecast_range
           /\ FoldsRun >= 1 => Cardinality(X_eval) = forecast_range

\* ---- C2 ----
\* a fold of sequence_cross_validate is being run
SeqFoldStep == InSeq /\ pc = "loop" /\ i' = i + 1

\* C2 as stated: with window_type 'cumulative' the training start of every
\* fold is 0; with 'fixed' the training start of each fold after the first is
\* strictly greater than that of the fold before, for every strategy, length
\* and n_folds.
C2_FoldStartOrig ==
    [][SeqFoldStep =>
         /\ window_type = "cumulative" => fold_start' = 0
         /\ (window_type = "fixed" /\ i >= 1) => fold_start' > fold_start]_vars

\* C2 amended: with 'cumulative' the training start of every fold is 0; with
\* 'fixed' it strictly increases from fold to fold whenever fold_size >= 1
\* (always under walk-forward, and under traditional when n_folds <= N), and
\* stays where it is when fold_size = 0.
C2_FoldStart ==
    [][SeqFoldStep =>
         /\ window_type = "cumulative" => fold_start' = 0
         /\ (window_type = "fixed" /\ i >= 1 /\ fold_size >= 1) => fold_start' > fold_start
         /\ (window_type = "fixed" /\ i >= 1 /\ fold_size = 0) => fold_start' = fold_start]_vars

C2_Witness ==
    /\ InSeq /\ window_type = "fixed" /\ strategy = "traditional"
    /\ FoldsRun >= 3 /\ fold_size >= 2 /\ fold_start = 2 * fold_size

\* ---- C3 ----
Example10x5 ==
    /\ InSeq /\ n_rows = 10 /\ arg_n_folds = 5
    /\ strategy = "traditional" /\ window_type = "cumulative"
    /\ min_window = 0 /\ forecast_range = 1

\* C3 as stated: on 10 rows with n_folds 5, traditional, cumulative, defaults:
\* fold_size is 2, fold 0 trains on [0,1) and evaluates [1,2), fold 4 trains
\* on [0,7) and evaluates [8,9).
C3_ExampleOrig ==
    (Example10x5 /\ pc # "start")
        => /\ fold_size = 2
           /\ FoldsRun = 1 => (X_train = Range(0, 1) /\ X_eval = Range(1, 2))
           /\ FoldsRun = 5 => (X_train = Range(0, 7) /\ X_eval = Range(8, 9))

\* C3 amended: same call: fold_size is 2, fold 0 trains on [0,1) and
\* evaluates [1,2), fold 4 trains on [0,9) and evaluates [9,10).
C3_Example ==
    (Example10x5 /\ pc # "start")
        => /\ fold_size = 2
           /\ FoldsRun = 1 => (X_train = Range(0, 1) /\ X_eval = Range(1, 2))
           /\ FoldsRun = 5 => (X_train = Range(0, 9) /\ X_eval = Range(9, 10))

C3_Witness == Example10x5 /\ pc = "done" /\ FoldsRun = 5 /\ fold_end = 10

\* ---- C4 ----
\* C4: in every fold at least min_window rows precede the first evaluation
\* row: fold_train_end >= min_window, and the evaluation rows actually
\* selected start at or after min_window (stated here for folds of size >= 1
\* on a series at least min_window + forecast_range long).
C4_MinWindowBeforeEval ==
    (InSeq /\ FoldsRun >= 1 /\ fold_size >= 1
           /\ n_rows >= min_window + forecast_range)
        => /\ fold_train_end >= min_window
           /\ \A r \in X_eval : r >= min_window

\* ---- C5 ----
\* C5: in cross_validate, when n_rows is divisible by n_folds, the evaluation
\* index sets of the folds are pairwise disjoint and cover every row, every
\* fold is trained on exactly the complement of its evaluation set, and after
\* the loop y_true and y_pred hold exactly one entry per row.
C5_KFoldPartition ==
    (InCV /\ pc \in {"loop", "done"} /\ n_rows % arg_n_folds = 0)
        => /\ Len(folds) = arg_n_folds
           /\ \A a, b \in 1 .. Len(folds) :
                a # b => folds[a].eval_index \cap folds[b].eval_index = {}
           /\ UNION {folds[a].eval_index : a \in 1 .. Len(folds)} = 0 .. n_rows - 1
           /\ \A j \in 1 .. FoldsRun :
                fit_calls[j] = (0 .. n_rows - 1) \ folds[j].eval_index
           /\ pc = "done" =>
                /\ Len(y_true) = n_rows /\ Len(y_pred) = n_rows
                /\ \A r \in 0 .. n_rows - 1 :
                     Cardinality({j \in 1 .. Len(y_true) : y_true[j] = r}) = 1
                /\ \A j \in 1 .. Len(y_pred) : y_pred[j].row = y_true[j]

C5_Witness ==
    /\ InCV /\ pc = "done" /\ n_rows = 4 /\ arg_n_folds = 2
    /\ Len(y_true) = 4 /\ y_true[1] > y_true[3]

\* ---- C6 ----
\* C6 as stated: a call of cross_validate with n_folds = k on n rows calls
\* model.fit exactly k times and model.predict exactly k times and returns
\* one score over exactly n aggregated predictions.
C6_CallCountsOrig ==
    (InCV /\ pc = "done")
        => /\ Len(fit_calls) = arg_n_folds
           /\ Len(predict_calls) = arg_n_folds
           /\ result.returned /\ result.value.n_pred = n_rows

\* C6 amended: such a call calls model.fit exactly k times and model.predict
\* exactly 2k times (per fold: once on the training split, for the training
\* score, then once on the evaluation split) and returns one score over
\* exactly n aggregated predictions.
C6_CallCounts ==
    (InCV /\ pc = "done")
        => /\ Len(fit_calls) = arg_n_folds
           /\ Len(predict_calls) = 2 * arg_n_folds
           /\ \A j \in 1 .. arg_n_folds :
                /\ predict_calls[2 * j - 1] = fit_calls[j]
                /\ predict_calls[2 * j] = folds[j].eval_index
           /\ result.returned
           /\ result.value.n_pred = n_rows /\ result.value.n_true = n_rows
           /\ Cardinality(result.value.pairs) = n_rows

C6_Witness ==
    /\ InCV /\ pc = "done" /\ arg_n_folds = 3 /\ n_rows = 4
    /\ Len(predict_calls) = 6

\* ---- C7 ----
\* C7: the score cross_validate returns is the score it would return with
\* the same folds processed in any other order.
C7_OrderInvariant ==
    (InCV /\ pc = "done")
        => \A q \in Perms(Len(folds)) :
              CVScore(CVRun(CVStart, Reordered(folds, q))) = result.value

\* ---- C8 ----
\* C8: in both procedures every call of fit_transforms is handed the
\* transform specification the caller supplied, never the fitted output of
\* an earlier fold.
C8_TransformsFromCaller ==
    \A j \in 1 .. Len(fit_transforms_args) :
        fit_transforms_args[j] = CallerTransforms

\* ---- C9 ----
\* C9: in every fold of sequence_cross_validate whose window ends inside a
\* series at least min_window + forecast_range long, the rows selected for training are exactly [fold_start,
\* fold_train_end), the rows selected for evaluation exactly [fold_train_end,
\* fold_end), both inside [0, N) and disjoint, and every training row lies
\* before every evaluation row and before fold_end.
C9_SliceRanges ==
    (InSeq /\ FoldsRun >= 1 /\ fold_size >= 1 /\ fold_end <= n_rows
           /\ n_rows >= min_window + forecast_range)
        => /\ fold_train_end = fold_end - forecast_range
           /\ X_train = Range(fold_start, fold_train_end)
           /\ X_eval = Range(fold_train_end, fold_end)
           /\ X_train \cap X_eval = {}
           /\ X_train \cup X_eval \subseteq 0 .. n_rows - 1
           /\ \A r \in X_train : r < fold_end /\ \A e \in X_eval : r < e

\* ---- C10 ----
\* C10: with min_window = 0, forecast_range = 1, N >= 2 and 1 <= n_folds <= N,
\* every call of model.fit in sequence_cross_validate gets a non-empty
\* training split.
C10_NonEmptyTrain ==
    (InSeq /\ min_window = 0 /\ forecast_range = 1 /\ n_rows >= 2
           /\ arg_n_folds >= 1 /\ arg_n_folds <= n_rows)
        => \A j \in 1 .. Len(fit_calls) : fit_calls[j] # {}
====
